---- MODULE Spec2Model ----
(***************************************************************************)
(* Online verification engine of the Test Run Engine (TRE).                *)
(*                                                                         *)
(* The model follows SessionManager (TRE_online.py) and the matcher it     *)
(* calls (TRE_json.py).  One engine thread runs start(); the UI thread     *)
(* calls pause(), resume() and stop(); the peer sends lines and may close  *)
(* the stream.  Strings are sequences of one-character strings.           *)
(*                                                                         *)
(* Spec takes the stream line by line.  FrameSpec takes it byte by byte    *)
(* and follows the cutting of lines in every place that reads the socket.  *)
(* FnSpec calls the functions of TRE_json on their own.                    *)
(***************************************************************************)
EXTENDS Integers, Sequences, FiniteSets, TLC

(* ---------------- program constants ---------------- *)
SETTLE_DELAY_S == 3
RING_BUFFER_MAX_LINES == 20000
STEP1_TIMEOUT_S == 120
DEFAULT_STEP_TIMEOUT_S == 0
HISTORY_MAX_PER_STEP == 200
RECONNECT_MAX == 3
RETRY_MAX_ATTEMPTS == 5
\* RETRY_BACKOFF_BASE_S = 0.5, in milliseconds
RETRY_BACKOFF_BASE_MS == 500
\* deque(maxlen=5000) of self._payload_history
PAYLOAD_HISTORY_MAXLEN == 5000

(* ---------------- bounds of the model ---------------- *)
\* number of lines the peer sends in one run
MaxLines == 2
\* the monotonic clock reads Clock0 when start() is called
Clock0 == 1
\* the explicit step timeout used by the test plans (seconds)
ShortTimeout == 4
\* duration of the wait / wait_capture actions of the test plans (seconds)
WaitS == 1

\* the readings of the clock the model distinguishes
Instants ==
    { Clock0, Clock0 + SETTLE_DELAY_S, Clock0 + ShortTimeout, Clock0 + STEP1_TIMEOUT_S }

(* ---------------- strings ---------------- *)
Str(c) == <<c>>
IsSpace(c) == c = " "

RECURSIVE lstrip(_)
lstrip(s) == IF s # <<>> /\ IsSpace(Head(s)) THEN lstrip(Tail(s)) ELSE s

RECURSIVE rstrip(_)
rstrip(s) ==
    IF s # <<>> /\ IsSpace(s[Len(s)]) THEN rstrip(SubSeq(s, 1, Len(s) - 1)) ELSE s

\* str.strip()
strip(s) == rstrip(lstrip(s))

\* re.sub(r"\s+", " ", s): every run of whitespace becomes one space
RECURSIVE collapse_ws(_)
collapse_ws(s) ==
    IF s = <<>> THEN <<>>
    ELSE IF IsSpace(Head(s))
         THEN <<" ">> \o collapse_ws(lstrip(s))
         ELSE <<Head(s)>> \o collapse_ws(Tail(s))

(* ---------------- TRE_json.sanitize_payload ---------------- *)
\* the characters of [A-Z], [a-z] and \d the model writes
UpperChars == {"A", "B", "C", "O", "T"}
LowerChars == {"a", "b"}
Digits == {"2"}
IsUpper(c) == c \in UpperChars
\* \w
IsWordChar(c) == c \in UpperChars \cup LowerChars \cup Digits \cup {"_"}

\* \b between s[p] and s[p + 1], for p in 0..Len(s)
boundary(s, p) ==
    (p >= 1 /\ IsWordChar(s[p])) # (p < Len(s) /\ IsWordChar(s[p + 1]))

\* payload.replace("\r", " ").replace("\n", " ")
flatten_newlines(s) == [i \in 1..Len(s) |-> IF s[i] \in {"\r", "\n"} THEN " " ELSE s[i]]

\* (32 <= ord(ch) <= 126) or ch in "\t ": of the characters of the model
\* only CR and LF are outside
IsPrintable(c) == c \notin {"\r", "\n"}
printable_only(s) == SelectSeq(s, IsPrintable)

\* s.startswith(tok, i - 1)
starts_at(s, i, tok) ==
    i + Len(tok) - 1 <= Len(s) /\ SubSeq(s, i, i + Len(tok) - 1) = tok

\* s.replace(tok, " ")
RECURSIVE replace_tok(_, _)
replace_tok(s, tok) ==
    IF s = <<>> THEN <<>>
    ELSE IF starts_at(s, 1, tok)
         THEN <<" ">> \o replace_tok(SubSeq(s, Len(tok) + 1, Len(s)), tok)
         ELSE <<Head(s)>> \o replace_tok(Tail(s), tok)

\* for tok in {"TELETELE", "AOTA", "CCU2s", "CCU2c"}: s = s.replace(tok, " ").
\* No token overlaps another one, so the order of the set does not matter.
drop_junk_tokens(s) ==
    replace_tok(replace_tok(replace_tok(replace_tok(s,
        <<"T", "E", "L", "E", "T", "E", "L", "E">>),
        <<"A", "O", "T", "A">>),
        <<"C", "C", "U", "2", "s">>),
        <<"C", "C", "U", "2", "c">>)

\* at i the text reads ([A-Z]{g}), then k more copies of the group, then \b
caps_repeat(s, i, g, k) ==
    /\ i + g * (k + 1) - 1 <= Len(s)
    /\ \A j \in i..(i + g - 1) : IsUpper(s[j])
    /\ \A n \in 1..k :
         SubSeq(s, i + n * g, i + (n + 1) * g - 1) = SubSeq(s, i, i + g - 1)
    /\ boundary(s, i + g * (k + 1) - 1)

\* the group lengths with which \b([A-Z]{3,10})(?:\1)+\b matches at i
caps_groups(s, i) ==
    IF IsUpper(s[i]) /\ boundary(s, i - 1)
    THEN { g \in 3..10 : \E k \in 1..(Len(s) \div g) : caps_repeat(s, i, g, k) }
    ELSE {}

\* re.sub(r"\b([A-Z]{3,10})(?:\1)+\b", r"\1", s) from position i on.  Both
\* quantifiers are greedy: the longest group that matches is taken, with
\* the largest number of copies after it.
RECURSIVE collapse_caps(_, _)
collapse_caps(s, i) ==
    IF i > Len(s) THEN <<>>
    ELSE LET G == caps_groups(s, i) IN
         IF G = {} THEN <<s[i]>> \o collapse_caps(s, i + 1)
         ELSE LET g == CHOOSE x \in G : \A y \in G : y <= x
                  K == { k \in 1..(Len(s) \div g) : caps_repeat(s, i, g, k) }
                  k == CHOOSE x \in K : \A y \in K : y <= x
              IN SubSeq(s, i, i + g - 1) \o collapse_caps(s, i + g * (k + 1))

\* the number of characters from position p on that are in the set C
RECURSIVE run_len(_, _, _)
run_len(s, p, C) ==
    IF p <= Len(s) /\ s[p] \in C THEN 1 + run_len(s, p + 1, C) ELSE 0

\* The positions at which =\s*[A-Z]{2,10}\d*[a-z]?\b can end when it starts
\* at the "=" of position i.  \s* takes the whole run of blanks (the next
\* character has to be a capital); n capitals, d digits and l small letters
\* follow.
tag_ends(s, i) ==
    IF s[i] # "=" THEN {}
    ELSE LET p == i + 1 + run_len(s, i + 1, {" "})
             R == run_len(s, p, UpperChars)
         IN { p + m[1] + m[2] + m[3] - 1 :
                m \in { q \in (2..10) \X (0..Len(s)) \X (0..1) :
                          /\ q[1] <= R
                          /\ q[2] <= run_len(s, p + q[1], Digits)
                          /\ q[3] <= run_len(s, p + q[1] + q[2], LowerChars)
                          /\ boundary(s, p + q[1] + q[2] + q[3] - 1) } }

\* re.sub(r"=\s*[A-Z]{2,10}\d*[a-z]?\b", " ", s) from position i on.  The
\* quantifiers are greedy and a shorter match ends before a word character,
\* where \b fails: tag_ends has at most one element.
RECURSIVE strip_tags(_, _)
strip_tags(s, i) ==
    IF i > Len(s) THEN <<>>
    ELSE LET E == tag_ends(s, i) IN
         IF E = {} THEN <<s[i]>> \o strip_tags(s, i + 1)
         ELSE <<" ">> \o strip_tags(s, (CHOOSE e \in E : \A f \in E : f <= e) + 1)

\* re.sub(r"\s*>>\s*", " >> ", s)
RECURSIVE normalize_arrows(_)
normalize_arrows(s) ==
    IF s = <<>> THEN <<>>
    ELSE IF starts_at(lstrip(s), 1, <<">", ">">>)
         THEN <<" ", ">", ">", " ">>
                  \o normalize_arrows(lstrip(SubSeq(lstrip(s), 3, Len(lstrip(s)))))
         ELSE <<Head(s)>> \o normalize_arrows(Tail(s))

\* TRE_json.sanitize_payload
sanitize_payload(payload) ==
    IF payload = <<>> THEN <<>>
    ELSE strip(collapse_ws(normalize_arrows(strip_tags(collapse_caps(
             drop_junk_tokens(printable_only(flatten_newlines(payload))), 1), 1))))

\* TRE_json.parse_dlt: it calls extract_payload, a name the module never
\* defines, so the NameError lands in its except branch and the payload is
\* the line itself.
parse_dlt(line) == line

\* The pattern occurs in the text (the matching the rule asks for).
Contains(text, pat) ==
    \E i \in 1..(Len(text) - Len(pat) + 1) : SubSeq(text, i, i + Len(pat) - 1) = pat

\* TRE_json.line_matches (the second definition, which is the one bound to
\* the name).  After the pattern check the nested helper _extract_payload is
\* defined and the statement "return line.strip()" that follows it sits at
\* the indentation of line_matches itself: the function returns the
\* stripped line, which the callers test for truth.
line_matches(line, cfg) ==
    IF cfg.pattern = <<>> THEN FALSE ELSE strip(line) # <<>>

(* ---------------- the test plan ---------------- *)
\* A step of the rule file.  kind is the key the step carries ("unknown"
\* when it has none of find / not_find / sequence / action); timeout is -1
\* when the step gives none.  ms is the duration an action gives, in
\* seconds of the model's clock, and -1 when it is not a number.
StepCfg(kind, pattern, min_count, sequence, timeout, atype) ==
    [kind |-> kind, pattern |-> pattern, min_count |-> min_count,
     sequence |-> sequence, timeout |-> timeout, atype |-> atype,
     ms |-> IF kind = "action" THEN WaitS ELSE 0,
     done |-> FALSE, seq_idx |-> 0, t0 |-> 0,
     final_result |-> "", final_line |-> [src |-> "", text |-> <<>>]]

PatA == Str("a")
PatB == Str("b")

FindA == StepCfg("find", PatA, 1, <<>>, -1, "")
FindBShort == StepCfg("find", PatB, 1, <<>>, ShortTimeout, "")
FindATwice == StepCfg("find", PatA, 2, <<>>, 0, "")
NotFindAShort == StepCfg("not_find", PatA, 1, <<>>, ShortTimeout, "")
NotFindB == StepCfg("not_find", PatB, 1, <<>>, -1, "")
SeqAB == StepCfg("sequence", <<>>, 1, <<PatA, PatB>>, -1, "")
WaitCapture == StepCfg("action", <<>>, 1, <<>>, -1, "wait_capture")
Wait == StepCfg("action", <<>>, 1, <<>>, -1, "wait")
Tap == StepCfg("action", <<>>, 1, <<>>, -1, "tap")
Unknown == StepCfg("unknown", <<>>, 1, <<>>, -1, "")
\* an action of a type _perform_action does not know
Swipe == StepCfg("action", <<>>, 1, <<>>, -1, "swipe")
\* a wait whose "ms" is not a number
WaitNaN == [Wait EXCEPT !.ms = -1]

\* the rule files of the model
Plans ==
    { <<FindA, FindBShort>>,
      <<FindATwice, NotFindB>>,
      <<NotFindAShort, FindA>>,
      <<SeqAB, NotFindB>>,
      <<WaitCapture, FindA>>,
      <<FindA, Tap, Wait>>,
      <<Unknown, FindBShort>>,
      <<Swipe, FindA>>,
      <<WaitCapture, WaitNaN>>,
      <<WaitCapture, WaitCapture, FindA>> }

\* The number of lines the peer sends in a run of the rule file ts: one
\* more when two wait_capture actions follow each other, for the line that
\* starts the tick and a line captured by each action.
LineBudget(ts) ==
    IF \E i \in 1..(Len(ts) - 1) :
          ts[i].atype = "wait_capture" /\ ts[i + 1].atype = "wait_capture"
    THEN MaxLines + 1
    ELSE MaxLines

\* the lines the peer may send
StreamLines == { Str("a"), Str("b"), Str(" ") }

(* ---------------- state ---------------- *)
VARIABLES
    tests,            \* self.tests: the steps with their progress fields
    counts,           \* self._counts
    hist,             \* self._hist
    payload_history,  \* self._payload_history
    updates,          \* number of on_step_update calls per step index
    action_ptr,       \* self._action_ptr
    ring,             \* self._ring
    prefeed_lines,    \* self._prefeed_lines
    running,          \* self._running
    paused,           \* self._paused
    sock,             \* self._sock: "none" or "open"
    pc,               \* position of the engine thread in start()
    buf,              \* self._buf, as the complete lines it holds
    lines,            \* pre_lines, local of start()
    disconnects,      \* local of start()
    settle_until,     \* local of start()
    connected,        \* start() got a connection
    now,              \* the monotonic clock
    inflight,         \* lines in the socket's receive buffer
    peer_closed,      \* the peer closed the stream
    sent,             \* lines sent by the peer so far
    payload_tap,      \* payload_tap.log: one payload per dispatched line
    attempt,          \* _connect_with_retries: attempts that failed so far
    delay,            \* _connect_with_retries: the delay last slept (ms)
    status,           \* the last message start() handed to on_status
    steps_init,       \* the lists handed to on_steps_init, one per call
    fn,               \* the function of TRE_json under call
    arg,              \* its argument
    res,              \* the values it returned, in order
    wire,             \* bytes in the socket's receive buffer
    received,         \* the bytes the engine read so far
    fbuf,             \* self._buf, character by character
    framed,           \* the lines cut from the bytes, in order
    fphase            \* where the engine is: "settle", "feed", "recv" or "tick"

machineVars == <<tests, counts, hist, payload_history, updates, action_ptr>>
bufVars == <<ring, prefeed_lines, buf>>
flagVars == <<running, paused, sock>>
localVars == <<pc, lines, disconnects, settle_until, connected>>
envVars == <<now, inflight, peer_closed, sent, payload_tap>>
connVars == <<attempt, delay, status, steps_init>>
fnVars == <<fn, arg, res>>
frameVars == <<wire, received, fbuf, framed, fphase>>
engineVars == <<machineVars, bufVars, flagVars, localVars, envVars, connVars>>
vars == <<engineVars, fnVars, frameVars>>

(* ---------------- the step state machine ---------------- *)
\* The machine state handed through the helpers below.
Machine == [tests |-> tests, counts |-> counts, hist |-> hist, upd |-> updates]

\* deque(maxlen=n).append
DequeAppend(dq, x, n) ==
    IF Len(dq) >= n THEN Tail(dq) \o <<x>> ELSE dq \o <<x>>

Evidence(src, text) == [src |-> src, text |-> text]

\* SessionManager._first_unfinished_idx (0 stands for None)
first_unfinished_idx(ts) ==
    IF \A i \in 1..Len(ts) : ts[i].done THEN 0
    ELSE CHOOSE i \in 1..Len(ts) : ~ts[i].done /\ \A j \in 1..(i - 1) : ts[j].done

\* SessionManager._emit: the observer is called, then the result is stored
emit(m, idx, result, line) ==
    [m EXCEPT !.upd[idx] = @ + 1,
              !.tests[idx].final_result = result,
              !.tests[idx].final_line = line]

\* t["_done"]=True; self._emit(...)
finish(m, idx, result, line) ==
    emit([m EXCEPT !.tests[idx].done = TRUE], idx, result, line)

\* a _try_find that counts the match for every step from idx on
try_find_every_step(m, idx, payload) ==
    LET c == m.tests[idx]
        need == c.min_count
    IN  IF line_matches(payload, c)
        THEN [m |-> [m EXCEPT !.counts = [j \in DOMAIN m.counts |->
                                             IF j >= idx THEN m.counts[j] + 1
                                             ELSE m.counts[j]]],
              ok |-> m.counts[idx] + 1 >= need]
        ELSE [m |-> m, ok |-> FALSE]

\* SessionManager._try_find
try_find(m, idx, payload) ==
    LET c == m.tests[idx]
        need == c.min_count
    IN  IF line_matches(payload, c)
        THEN [m |-> [m EXCEPT !.counts[idx] = @ + 1], ok |-> m.counts[idx] + 1 >= need]
        ELSE [m |-> m, ok |-> FALSE]

\* SessionManager._try_sequence
try_sequence(m, idx, payload) ==
    LET t == m.tests[idx]
        seq == t.sequence
        prog == t.seq_idx
    IN  IF prog >= Len(seq) THEN [m |-> m, ok |-> TRUE]
        ELSE IF line_matches(payload, [pattern |-> seq[prog + 1]])
             THEN [m |-> [m EXCEPT !.tests[idx].seq_idx = prog + 1],
                   ok |-> prog + 1 >= Len(seq)]
             ELSE [m |-> m, ok |-> FALSE]

\* the message _perform_action returns with ok, as a one-element text
action_msg(atype, ok) ==
    CASE atype = "wait" -> <<"wait">>
      [] atype = "wait_capture" -> <<"wait_capture">>
      [] atype = "tap" -> IF ok THEN <<"tap ok">> ELSE <<"tap fail">>
      [] OTHER -> <<"unknown action">>

\* SessionManager._process_line_sequential.  ok is what _perform_action
\* returned when the current step is an action.
process_line_sequential(m, payload, ok) ==
    LET idx == first_unfinished_idx(m.tests) IN
    IF idx = 0 THEN m
    ELSE
      LET t == m.tests[idx]
          m1 == [m EXCEPT !.hist[idx] = DequeAppend(@, payload, HISTORY_MAX_PER_STEP)]
      IN  CASE t.kind = "action" ->
                 finish(m1, idx, IF ok THEN "PASS" ELSE "FAIL",
                        Evidence("action", action_msg(t.atype, ok)))
            [] t.kind = "find" ->
                 LET r == try_find(m1, idx, payload) IN
                 IF r.ok THEN finish(r.m, idx, "PASS", Evidence("line", payload)) ELSE r.m
            [] t.kind = "not_find" ->
                 IF line_matches(payload, t)
                 THEN finish(m1, idx, "FAIL", Evidence("line", payload))
                 ELSE m1
            [] t.kind = "sequence" ->
                 LET r == try_sequence(m1, idx, payload) IN
                 IF r.ok THEN finish(r.m, idx, "PASS", Evidence("line", payload)) ELSE r.m
            [] OTHER -> finish(m1, idx, "ERROR", Evidence("unknown", <<>>))

\* the "while prog < len(seq)" loop of _scan_history_for_step: the cursor
\* after advancing over every element some history entry matches
RECURSIVE scan_sequence_cursor(_, _, _)
scan_sequence_cursor(seq, prog, ph) ==
    IF prog >= Len(seq) THEN prog
    ELSE IF \E k \in 1..Len(ph) : line_matches(ph[k], [pattern |-> seq[prog + 1]])
         THEN scan_sequence_cursor(seq, prog + 1, ph)
         ELSE prog

\* first entry of the history that matches cfg (0: none)
first_match(ph, cfg) ==
    IF \E k \in 1..Len(ph) : line_matches(ph[k], cfg)
    THEN CHOOSE k \in 1..Len(ph) :
            line_matches(ph[k], cfg) /\ \A j \in 1..(k - 1) : ~line_matches(ph[j], cfg)
    ELSE 0

\* last entry of the history that matches cfg (0: none)
last_match(ph, cfg) ==
    IF \E k \in 1..Len(ph) : line_matches(ph[k], cfg)
    THEN CHOOSE k \in 1..Len(ph) :
            line_matches(ph[k], cfg) /\ \A j \in (k + 1)..Len(ph) : ~line_matches(ph[j], cfg)
    ELSE 0

\* SessionManager._scan_history_for_step
scan_history_for_step(m, idx, ph) ==
    IF idx < 1 \/ idx > Len(m.tests) THEN m
    ELSE
      LET t == m.tests[idx] IN
      CASE t.kind = "action" -> m
        [] t.kind = "find" ->
             LET k == first_match(ph, t) IN
             IF k # 0 THEN finish(m, idx, "PASS", Evidence("line", ph[k])) ELSE m
        [] t.kind = "not_find" ->
             LET k == first_match(ph, t) IN
             IF k # 0 THEN finish(m, idx, "FAIL", Evidence("line", ph[k])) ELSE m
        [] t.kind = "sequence" ->
             LET seq == t.sequence IN
             IF seq = <<>> THEN finish(m, idx, "PASS", Evidence("line", <<>>))
             ELSE
               LET prog == scan_sequence_cursor(seq, t.seq_idx, ph)
                   m1 == [m EXCEPT !.tests[idx].seq_idx = prog]
                   k == last_match(ph, [pattern |-> seq[Len(seq)]])
               IN  IF prog < Len(seq) THEN m1
                   ELSE finish(m1, idx, "PASS",
                               Evidence("line", IF k # 0 THEN ph[k] ELSE <<>>))
        [] OTHER -> finish(m, idx, "ERROR", Evidence("unknown", <<>>))

\* _current_timeout_s with the default of step 1 given to every step
current_timeout_s_every_step(idx, t) ==
    IF t.timeout >= 0 THEN t.timeout ELSE STEP1_TIMEOUT_S

\* SessionManager._current_timeout_s
current_timeout_s(idx, t) ==
    IF t.timeout >= 0 THEN t.timeout
    ELSE IF idx = 1 THEN STEP1_TIMEOUT_S ELSE DEFAULT_STEP_TIMEOUT_S

\* _check_timeouts without its "if t.get('_done'): continue"
check_timeout_of_unguarded(m, idx, clock) ==
    LET t == m.tests[idx]
        t0 == IF t.t0 # 0 THEN t.t0 ELSE clock
        m1 == [m EXCEPT !.tests[idx].t0 = t0]
        tmo == current_timeout_s(idx, t)
    IN  IF tmo <= 0 \/ (clock - t0) < tmo THEN m1
        ELSE IF t.kind = "not_find"
             THEN finish(m1, idx, "PASS", Evidence("timeout", <<>>))
             ELSE finish(m1, idx, "FAIL", Evidence("timeout", <<>>))

\* _check_timeouts without its not_find branch
check_timeout_of_fail_only(m, idx, clock) ==
    LET t == m.tests[idx] IN
    IF t.done THEN m
    ELSE
      LET t0 == IF t.t0 # 0 THEN t.t0 ELSE clock
          m1 == [m EXCEPT !.tests[idx].t0 = t0]
          tmo == current_timeout_s(idx, t)
      IN  IF tmo <= 0 \/ (clock - t0) < tmo THEN m1
          ELSE finish(m1, idx, "FAIL", Evidence("timeout", <<>>))

\* one iteration of the loop of _check_timeouts
check_timeout_of(m, idx, clock) ==
    LET t == m.tests[idx] IN
    IF t.done THEN m
    ELSE
      LET t0 == IF t.t0 # 0 THEN t.t0 ELSE clock
          m1 == [m EXCEPT !.tests[idx].t0 = t0]
          tmo == current_timeout_s(idx, t)
      IN  IF tmo <= 0 \/ (clock - t0) < tmo THEN m1
          ELSE IF t.kind = "not_find"
               THEN finish(m1, idx, "PASS", Evidence("timeout", <<>>))
               ELSE finish(m1, idx, "FAIL", Evidence("timeout", <<>>))

RECURSIVE check_timeouts_from(_, _, _)
check_timeouts_from(m, idx, clock) ==
    IF idx > Len(m.tests) THEN m
    ELSE check_timeouts_from(check_timeout_of(m, idx, clock), idx + 1, clock)

\* SessionManager._check_timeouts
check_timeouts(m, isRunning, clock) ==
    IF ~isRunning THEN m ELSE check_timeouts_from(m, 1, clock)

\* SessionManager._all_done
all_done(ts) == \A i \in 1..Len(ts) : ts[i].done

\* _finalize_unfinished without its not_find branch
finalize_one_all_fail(m, i, reason) ==
    IF m.tests[i].done THEN m ELSE finish(m, i, "FAIL", Evidence(reason, <<>>))

\* one iteration of the loop of _finalize_unfinished
finalize_one(m, i, reason) ==
    LET t == m.tests[i] IN
    IF t.done THEN m
    ELSE IF t.kind = "not_find"
         THEN finish(m, i, "PASS", Evidence(reason, <<>>))
         ELSE finish(m, i, "FAIL", Evidence(reason, <<>>))

RECURSIVE finalize_from(_, _, _)
finalize_from(m, i, reason) ==
    IF i > Len(m.tests) THEN m
    ELSE finalize_from(finalize_one(m, i, reason), i + 1, reason)

\* a finalize pass that resolves the current step only
finalize_unfinished_current_only(m, reason) ==
    IF first_unfinished_idx(m.tests) = 0 THEN m
    ELSE finalize_one(m, first_unfinished_idx(m.tests), reason)

\* SessionManager._finalize_unfinished
finalize_unfinished(m, reason) == finalize_from(m, 1, reason)

(* ---------------- initial state ---------------- *)
\* The state after SessionManager.__init__.
EngineInit ==
    /\ tests \in Plans
    /\ counts = [i \in 1..Len(tests) |-> 0]
    /\ hist = [i \in 1..Len(tests) |-> <<>>]
    /\ payload_history = <<>>
    /\ updates = [i \in 1..Len(tests) |-> 0]
    /\ action_ptr = 1
    /\ ring = <<>>
    /\ prefeed_lines = <<>>
    /\ buf = <<>>
    /\ running = FALSE
    /\ paused = FALSE
    /\ sock = "none"
    /\ pc = "start"
    /\ lines = <<>>
    /\ disconnects = 0
    /\ settle_until = 0
    /\ connected = FALSE
    /\ now = Clock0
    /\ inflight = <<>>
    /\ peer_closed = FALSE
    /\ sent = 0
    /\ payload_tap = <<>>
    /\ attempt = 0
    /\ delay = 0
    /\ status = ""
    /\ steps_init = <<>>

\* no function of TRE_json is under call
NoCall == fn = "" /\ arg = <<>> /\ res = <<>>

\* no byte was sent yet
NoBytes ==
    /\ wire = <<>> /\ received = <<>> /\ fbuf = <<>> /\ framed = <<>>
    /\ fphase = "settle"

\* A run of the engine, its stream taken line by line.
Init == EngineInit /\ NoCall /\ NoBytes

SetMachine(m) ==
    /\ tests' = m.tests
    /\ counts' = m.counts
    /\ hist' = m.hist
    /\ updates' = m.upd

(* ---------------- the environment ---------------- *)
\* sequences of at most k stream lines
Arrivals(k) == UNION { [1..n -> StreamLines] : n \in 0..k }

\* the earliest instant of the model's clock not before t
InstantAtOrAfter(t) ==
    IF \E i \in Instants : i >= t
    THEN CHOOSE i \in Instants : i >= t /\ \A j \in Instants : j >= t => i <= j
    ELSE now

\* The peer sends one more line.
Send ==
    /\ UNCHANGED <<fnVars, frameVars>>
    /\ pc \in {"settle", "recv"}
    /\ sock = "open" /\ ~peer_closed
    /\ sent < LineBudget(tests)
    /\ \E l \in StreamLines : inflight' = Append(inflight, l)
    /\ sent' = sent + 1
    /\ UNCHANGED <<machineVars, bufVars, flagVars, localVars, now, peer_closed, payload_tap, connVars>>

\* The peer closes the stream.
PeerClose ==
    /\ UNCHANGED <<fnVars, frameVars>>
    /\ pc \in {"settle", "recv"}
    /\ sock = "open" /\ ~peer_closed
    /\ peer_closed' = TRUE
    /\ UNCHANGED <<machineVars, bufVars, flagVars, localVars, now, inflight, sent,
                   payload_tap, connVars>>

\* Time passes while the engine sleeps or is blocked in a read.
Elapse ==
    /\ UNCHANGED <<fnVars, frameVars>>
    /\ pc \in {"settle", "recv"}
    /\ \E t \in Instants : t > now /\ now' = t
    /\ UNCHANGED <<machineVars, bufVars, flagVars, localVars, inflight, peer_closed,
                   sent, payload_tap, connVars>>

(* ---------------- the UI thread ---------------- *)
\* pause() and resume() only write self._paused, which the engine reads in
\* the prefeed loop and in the line loop of a tick: a call made elsewhere
\* acts like one made when the engine next reaches one of these places.
\* The feed of the settled lines does not read the flag; a call made while
\* the engine settles acts like one made when the feed begins.
\* The Pause button stays enabled when start() returns: a call made then
\* sets the flag of a run that is over.
\* SessionManager.pause
pause ==
    /\ UNCHANGED <<fnVars, frameVars>>
    /\ pc \in {"feed", "prefeed", "recv", "lines", "returned"}
    /\ ~paused
    /\ paused' = TRUE
    /\ UNCHANGED <<machineVars, bufVars, running, sock, localVars, envVars, connVars>>

\* SessionManager.resume
resume ==
    /\ UNCHANGED <<fnVars, frameVars>>
    /\ pc \in {"feed", "prefeed", "recv", "lines"}
    /\ paused
    /\ paused' = FALSE
    /\ UNCHANGED <<machineVars, bufVars, running, sock, localVars, envVars, connVars>>

\* SessionManager.stop
stop ==
    /\ UNCHANGED <<fnVars, frameVars>>
    /\ pc \notin {"start", "returned"}
    /\ running' = FALSE /\ paused' = FALSE
    /\ buf' = <<>> /\ ring' = <<>> /\ prefeed_lines' = <<>>
    /\ sock' = "none"
    /\ UNCHANGED <<machineVars, localVars, envVars, connVars>>

(* ---------------- actions of the executor ---------------- *)
\* SessionManager._perform_action: ok is the result it returns; pf is
\* self._prefeed_lines when it is called.  wait and wait_capture poll the
\* socket every WAIT_DRAIN_TICK_S until the time is over or the run stops.
\* The last poll of a wait is followed by a sleep of WAIT_DRAIN_TICK_S that
\* ends the wait: of the lines that arrive during the wait the first k are
\* read and dropped, the lines that arrive after the last poll stay in the
\* socket.  For wait_capture such lines are in the state of the lines that
\* arrive when the action is over.
perform_action(atype, ok, pf) ==
    CASE atype = "wait" ->
           /\ ok = TRUE
           /\ IF running
              THEN /\ now' = InstantAtOrAfter(now + WaitS)
                   /\ \E more \in Arrivals(IF sock = "open" /\ ~peer_closed
                                           THEN LineBudget(tests) - sent ELSE 0) :
                        /\ sent' = sent + Len(more)
                        /\ \E k \in 0..Len(more) :
                             inflight' = IF sock = "open"
                                         THEN SubSeq(more, k + 1, Len(more))
                                         ELSE inflight
              ELSE UNCHANGED <<now, sent, inflight>>
           /\ prefeed_lines' = pf
      [] atype = "wait_capture" ->
           /\ ok = TRUE
           /\ IF running
              THEN /\ now' = InstantAtOrAfter(now + WaitS)
                   /\ \E more \in Arrivals(IF sock = "open" /\ ~peer_closed
                                           THEN LineBudget(tests) - sent ELSE 0) :
                        /\ sent' = sent + Len(more)
                        /\ inflight' = IF sock = "open" THEN <<>> ELSE inflight
                        /\ prefeed_lines' =
                             (IF sock = "open" THEN inflight \o more ELSE <<>>) \o pf
              ELSE /\ UNCHANGED <<now, sent, inflight>>
                   /\ prefeed_lines' = pf
      [] atype = "tap" ->
           /\ ok \in BOOLEAN
           /\ prefeed_lines' = pf
           /\ UNCHANGED <<now, sent, inflight>>
      [] OTHER ->
           /\ ok = FALSE
           /\ prefeed_lines' = pf
           /\ UNCHANGED <<now, sent, inflight>>

\* _perform_action raises instead of returning: int(action.get("ms", 0))
\* of the wait actions raises ValueError when ms is not a number
int_ms_raises(t) ==
    t.kind = "action" /\ t.atype \in {"wait", "wait_capture"} /\ t.ms < 0

\* stop() closes the socket while a wait action polls it: setblocking in
\* _drain_discard_once / _drain_collect_once raises, and nothing catches it
stop_race(t) ==
    /\ t.kind = "action" /\ t.atype \in {"wait", "wait_capture"} /\ t.ms > 0
    /\ running /\ sock = "open"

\* the first unfinished step is an action that raises on malformed input
current_raises ==
    LET idx == first_unfinished_idx(tests) IN idx # 0 /\ int_ms_raises(tests[idx])

(* ---------------- the engine thread: start() ---------------- *)
\* SessionManager._process_line_dispatch: the payload is extracted and
\* sanitized and handed to the sequential verifier.
process_line_dispatch(line, pf) ==
    LET payload == sanitize_payload(parse_dlt(line))
        idx == first_unfinished_idx(tests)
    IN  /\ payload_tap' = Append(payload_tap, payload)
        /\ IF idx # 0 /\ tests[idx].kind = "action"
           THEN \E ok \in BOOLEAN :
                  /\ perform_action(tests[idx].atype, ok, pf)
                  /\ SetMachine(process_line_sequential(Machine, payload, ok))
           ELSE /\ SetMachine(process_line_sequential(Machine, payload, FALSE))
                /\ prefeed_lines' = pf
                /\ UNCHANGED <<now, sent, inflight>>

\* 2 ** n
RECURSIVE pow2(_)
pow2(n) == IF n = 0 THEN 1 ELSE 2 * pow2(n - 1)

\* _connect_with_retries: delay = RETRY_BACKOFF_BASE_S * (2 ** (attempt - 1))
retry_delay_linear(k) == RETRY_BACKOFF_BASE_MS * k
retry_delay(k) == RETRY_BACKOFF_BASE_MS * pow2(k - 1)

\* _connect_with_retries, one iteration of its loop in which the connect
\* raises: the failure is reported and the delay is slept.  The function is
\* called by start() (pc = "start") and by _reconnect (pc = "reconnect").
connect_retry ==
    /\ UNCHANGED <<fnVars, frameVars>>
    /\ pc \in {"start", "reconnect"}
    /\ attempt < RETRY_MAX_ATTEMPTS
    /\ attempt' = attempt + 1
    /\ delay' = retry_delay(attempt + 1)
    /\ status' = "Connect failed - retrying"
    /\ UNCHANGED <<machineVars, bufVars, flagVars, localVars, envVars, steps_init>>

\* steps_info with the indices counted from 0
steps_info_from_zero(ts) == [i \in 1..Len(ts) |-> [idx |-> i - 1, vc |-> ts[i].kind]]

\* start(): steps_info, the list handed to on_steps_init: the index of each
\* step and the description of its check (the key the step carries)
steps_info(ts) == [i \in 1..Len(ts) |-> [idx |-> i, vc |-> ts[i].kind]]

\* start(): an attempt of _connect_with_retries succeeded and the function
\* returned the socket; the steps are initialised and on_steps_init is called
StartConnected ==
    /\ UNCHANGED <<fnVars, frameVars>>
    /\ pc = "start"
    /\ attempt < RETRY_MAX_ATTEMPTS
    /\ attempt' = 0 /\ delay' = 0
    /\ steps_init' = Append(steps_init, steps_info(tests))
    /\ status' = "Settling"
    /\ sock' = "open" /\ running' = TRUE /\ connected' = TRUE
    /\ tests' = [i \in 1..Len(tests) |->
                   [tests[i] EXCEPT !.done = FALSE, !.seq_idx = 0, !.t0 = now]]
    /\ counts' = [i \in 1..Len(tests) |-> 0]
    /\ hist' = [i \in 1..Len(tests) |-> <<>>]
    /\ ring' = <<>> /\ action_ptr' = 1
    /\ settle_until' = now + SETTLE_DELAY_S
    /\ pc' = "settle"
    /\ UNCHANGED <<payload_history, updates, prefeed_lines, buf, paused, lines,
                   disconnects, envVars>>

\* start(): every attempt failed, _connect_with_retries returned None
StartFailed_runs ==
    /\ UNCHANGED <<fnVars, frameVars>>
    /\ pc = "start"
    /\ attempt = RETRY_MAX_ATTEMPTS
    /\ attempt' = 0 /\ delay' = 0
    /\ status' = "Failed to connect."
    /\ running' = TRUE
    /\ pc' = "returned"
    /\ UNCHANGED <<machineVars, bufVars, paused, sock, lines, disconnects,
                   settle_until, connected, envVars, steps_init>>

StartFailed ==
    /\ UNCHANGED <<fnVars, frameVars>>
    /\ pc = "start"
    /\ attempt = RETRY_MAX_ATTEMPTS
    /\ attempt' = 0 /\ delay' = 0
    /\ status' = "Failed to connect."
    /\ pc' = "returned"
    /\ UNCHANGED <<machineVars, bufVars, flagVars, lines, disconnects,
                   settle_until, connected, envVars, steps_init>>

\* a ring that takes the lines of a block newest first
RECURSIVE ring_extend_newest_first(_, _)
ring_extend_newest_first(r, ls) ==
    IF ls = <<>> THEN r
    ELSE DequeAppend(ring_extend_newest_first(r, Tail(ls)), Head(ls),
                     RING_BUFFER_MAX_LINES)

\* RingAppend: LineRing.append on a deque(maxlen=RING_BUFFER_MAX_LINES)
RECURSIVE ring_extend(_, _)
ring_extend(r, ls) ==
    IF ls = <<>> THEN r
    ELSE ring_extend(DequeAppend(r, Head(ls), RING_BUFFER_MAX_LINES), Tail(ls))

\* one pass of the settle loop: _drain_to_ring
SettleDrain ==
    /\ UNCHANGED <<fnVars, frameVars>>
    /\ pc = "settle"
    /\ running /\ now < settle_until
    /\ IF sock = "open"
       THEN ring' = ring_extend(ring, inflight) /\ inflight' = <<>>
       ELSE UNCHANGED <<ring, inflight>>
    /\ UNCHANGED <<machineVars, prefeed_lines, buf, flagVars, localVars, now,
                   peer_closed, sent, payload_tap, connVars>>

\* the settle loop ends; pre_lines = self._ring.drain()
SettleEnd ==
    /\ UNCHANGED <<fnVars, frameVars>>
    /\ pc = "settle"
    /\ ~(running /\ now < settle_until)
    /\ lines' = ring /\ ring' = <<>>
    /\ status' = "Feeding"
    /\ pc' = "feed"
    /\ UNCHANGED <<machineVars, prefeed_lines, buf, flagVars, disconnects,
                   settle_until, connected, envVars, attempt, delay, steps_init>>

\* one iteration of "for ln in pre_lines"
FeedLine ==
    /\ UNCHANGED <<fnVars, frameVars>>
    /\ pc = "feed"
    /\ lines # <<>> /\ running
    /\ ~current_raises
    /\ process_line_dispatch(Head(lines), prefeed_lines)
    /\ lines' = Tail(lines)
    /\ UNCHANGED <<payload_history, action_ptr, ring, buf, flagVars, pc, disconnects,
                   settle_until, connected, peer_closed, connVars>>

\* the pre-feed loop ends (exhausted, or break on not running)
FeedEnd ==
    /\ UNCHANGED <<fnVars, frameVars>>
    /\ pc = "feed"
    /\ lines = <<>> \/ ~running
    /\ lines' = <<>> /\ disconnects' = 0
    /\ status' = "Live matching started."
    /\ pc' = "loop"
    /\ UNCHANGED <<machineVars, bufVars, flagVars, settle_until, connected, envVars,
                   attempt, delay, steps_init>>

\* "while self._running:" of the main loop
LoopTest ==
    /\ UNCHANGED <<fnVars, frameVars>>
    /\ pc = "loop"
    /\ pc' = IF running THEN "prefeed" ELSE "finalize"
    /\ UNCHANGED <<machineVars, bufVars, flagVars, lines, disconnects, settle_until,
                   connected, envVars, connVars>>

\* one iteration of the prefeed loop of the main loop
PrefeedLine ==
    /\ UNCHANGED <<fnVars, frameVars>>
    /\ pc = "prefeed"
    /\ prefeed_lines # <<>> /\ running /\ ~paused
    /\ ~current_raises
    /\ process_line_dispatch(Head(prefeed_lines), Tail(prefeed_lines))
    /\ UNCHANGED <<payload_history, action_ptr, ring, buf, flagVars, localVars,
                   peer_closed, connVars>>

PrefeedEnd ==
    /\ UNCHANGED <<fnVars, frameVars>>
    /\ pc = "prefeed"
    /\ ~(prefeed_lines # <<>> /\ running /\ ~paused)
    /\ pc' = "recv"
    /\ UNCHANGED <<machineVars, bufVars, flagVars, lines, disconnects, settle_until,
                   connected, envVars, connVars>>

\* text = self._recv_block() returned data: self._buf += text
RecvData ==
    /\ UNCHANGED <<fnVars, frameVars>>
    /\ pc = "recv"
    /\ sock = "open" /\ inflight # <<>>
    /\ buf' = buf \o inflight /\ inflight' = <<>>
    /\ pc' = "lines"
    /\ UNCHANGED <<machineVars, ring, prefeed_lines, flagVars, lines, disconnects,
                   settle_until, connected, now, peer_closed, sent, payload_tap, connVars>>

\* text is None (no socket, or the stream is closed): within the budget a
\* reconnect cycle starts, and _reconnect drops the old socket; else the
\* loop is left.
RecvNone_inclusive ==
    /\ UNCHANGED <<fnVars, frameVars>>
    /\ pc = "recv"
    /\ sock = "none" \/ (peer_closed /\ inflight = <<>>)
    /\ IF disconnects <= RECONNECT_MAX
       THEN /\ disconnects' = disconnects + 1
            /\ sock' = "none"
            /\ status' = "Disconnected - reconnecting"
            /\ pc' = "reconnect"
       ELSE /\ pc' = "finalize"
            /\ UNCHANGED <<disconnects, sock, status>>
    /\ UNCHANGED <<machineVars, bufVars, running, paused, lines, settle_until,
                   connected, envVars, attempt, delay, steps_init>>

RecvNone ==
    /\ UNCHANGED <<fnVars, frameVars>>
    /\ pc = "recv"
    /\ sock = "none" \/ (peer_closed /\ inflight = <<>>)
    /\ IF disconnects < RECONNECT_MAX
       THEN /\ disconnects' = disconnects + 1
            /\ sock' = "none"
            /\ status' = "Disconnected - reconnecting"
            /\ pc' = "reconnect"
       ELSE /\ pc' = "finalize"
            /\ UNCHANGED <<disconnects, sock, status>>
    /\ UNCHANGED <<machineVars, bufVars, running, paused, lines, settle_until,
                   connected, envVars, attempt, delay, steps_init>>

\* _reconnect got a socket from _connect_with_retries: "Reconnected.",
\* continue
Reconnected_restarts ==
    /\ UNCHANGED <<fnVars, frameVars>>
    /\ pc = "reconnect"
    /\ attempt < RETRY_MAX_ATTEMPTS
    /\ attempt' = 0 /\ delay' = 0
    /\ sock' = "open" /\ peer_closed' = FALSE /\ inflight' = <<>>
    /\ status' = "Reconnected."
    /\ pc' = "loop"
    /\ tests' = [i \in 1..Len(tests) |->
                   [tests[i] EXCEPT !.done = FALSE, !.seq_idx = 0]]
    /\ counts' = [i \in 1..Len(tests) |-> 0]
    /\ hist' = [i \in 1..Len(tests) |-> <<>>]
    /\ UNCHANGED <<payload_history, updates, action_ptr, bufVars, running, paused,
                   lines, disconnects, settle_until, connected, now, sent,
                   payload_tap, steps_init>>

Reconnected ==
    /\ UNCHANGED <<fnVars, frameVars>>
    /\ pc = "reconnect"
    /\ attempt < RETRY_MAX_ATTEMPTS
    /\ attempt' = 0 /\ delay' = 0
    /\ sock' = "open" /\ peer_closed' = FALSE /\ inflight' = <<>>
    /\ status' = "Reconnected."
    /\ pc' = "loop"
    /\ UNCHANGED <<machineVars, bufVars, running, paused, lines, disconnects,
                   settle_until, connected, now, sent, payload_tap, steps_init>>

\* every attempt of the reconnect failed: break
ReconnectFailed ==
    /\ UNCHANGED <<fnVars, frameVars>>
    /\ pc = "reconnect"
    /\ attempt = RETRY_MAX_ATTEMPTS
    /\ attempt' = 0 /\ delay' = 0
    /\ status' = "Connect failed after all attempts"
    /\ pc' = "finalize"
    /\ UNCHANGED <<machineVars, bufVars, flagVars, lines, disconnects,
                   settle_until, connected, envVars, steps_init>>

\* stop() cleared self._sock between the test and the recv of _recv_block:
\* the AttributeError is re-raised and start() reports "Runner error"
RecvError ==
    /\ UNCHANGED <<fnVars, frameVars>>
    /\ pc = "recv"
    /\ sock = "none"
    /\ status' = "Runner error"
    /\ pc' = "finalize"
    /\ UNCHANGED <<machineVars, bufVars, flagVars, lines, disconnects, settle_until,
                   connected, envVars, attempt, delay, steps_init>>

\* one iteration of the line loop: the next line of self._buf is buffered
\* in the ring when paused, dispatched otherwise
LineStep ==
    /\ UNCHANGED <<fnVars, frameVars>>
    /\ pc = "lines"
    /\ buf # <<>>
    /\ paused \/ ~current_raises
    /\ buf' = Tail(buf)
    /\ IF paused
       THEN /\ ring' = DequeAppend(ring, Head(buf), RING_BUFFER_MAX_LINES)
            /\ UNCHANGED <<tests, counts, hist, updates, prefeed_lines, now, sent,
                           inflight, payload_tap>>
       ELSE /\ process_line_dispatch(Head(buf), prefeed_lines)
            /\ ring' = ring
    /\ UNCHANGED <<payload_history, action_ptr, flagVars, localVars, peer_closed, connVars>>

\* no complete line is left in self._buf
LinesEnd ==
    /\ UNCHANGED <<fnVars, frameVars>>
    /\ pc = "lines"
    /\ buf = <<>>
    /\ pc' = "timeouts"
    /\ UNCHANGED <<machineVars, bufVars, flagVars, lines, disconnects, settle_until,
                   connected, envVars, connVars>>

\* self._check_timeouts()
CheckTimeouts ==
    /\ UNCHANGED <<fnVars, frameVars>>
    /\ pc = "timeouts"
    /\ SetMachine(check_timeouts(Machine, running, now))
    /\ pc' = "actions"
    /\ UNCHANGED <<payload_history, action_ptr, bufVars, flagVars, lines, disconnects,
                   settle_until, connected, envVars, connVars>>

\* one iteration of the loop of _run_pending_actions
run_pending_actions ==
    /\ UNCHANGED <<fnVars, frameVars>>
    /\ pc = "actions"
    /\ IF ~(running /\ action_ptr <= Len(tests))
       THEN /\ pc' = "catchup"
            /\ UNCHANGED <<tests, counts, hist, updates, action_ptr, prefeed_lines,
                           now, sent, inflight>>
       ELSE IF tests[action_ptr].done
       THEN /\ action_ptr' = action_ptr + 1
            /\ UNCHANGED <<tests, counts, hist, updates, pc, prefeed_lines,
                           now, sent, inflight>>
       ELSE IF tests[action_ptr].kind # "action"
       THEN /\ pc' = "catchup"
            /\ UNCHANGED <<tests, counts, hist, updates, action_ptr, prefeed_lines,
                           now, sent, inflight>>
       ELSE \E ok \in BOOLEAN :
            /\ ~int_ms_raises(tests[action_ptr])
            /\ perform_action(tests[action_ptr].atype, ok, prefeed_lines)
            /\ SetMachine(finish(Machine, action_ptr, IF ok THEN "PASS" ELSE "FAIL",
                                 Evidence("action",
                                          action_msg(tests[action_ptr].atype, ok))))
            /\ action_ptr' = action_ptr + 1
            /\ pc' = pc
    /\ UNCHANGED <<payload_history, ring, buf, flagVars, lines, disconnects,
                   settle_until, connected, peer_closed, payload_tap, connVars>>

\* the catch-up of the tick: _scan_history_for_step(cur)
CatchUp ==
    /\ UNCHANGED <<fnVars, frameVars>>
    /\ pc = "catchup"
    /\ LET cur == first_unfinished_idx(tests) IN
       IF cur # 0
       THEN SetMachine(scan_history_for_step(Machine, cur, payload_history))
       ELSE UNCHANGED <<tests, counts, hist, updates>>
    /\ pc' = "alldone"
    /\ UNCHANGED <<payload_history, action_ptr, bufVars, flagVars, lines, disconnects,
                   settle_until, connected, envVars, connVars>>

\* "if self._all_done(): self._running=False", then the sleep of the tick
AllDone ==
    /\ UNCHANGED <<fnVars, frameVars>>
    /\ pc = "alldone"
    /\ running' = IF all_done(tests) THEN FALSE ELSE running
    /\ pc' = "loop"
    /\ UNCHANGED <<machineVars, bufVars, paused, sock, lines, disconnects,
                   settle_until, connected, envVars, connVars>>

\* _process_line_dispatch raises in the action of the current step, by a
\* malformed ms or by a stop() that closes the socket during the wait.  The
\* payload is logged and kept in the step's history before the action is
\* called.  The feed of the settled lines is outside every try: the
\* exception leaves start().  In the main loop it is caught, "Runner
\* error" is reported and the finally block follows.
DispatchRaises ==
    /\ UNCHANGED <<fnVars, frameVars>>
    /\ running
    /\ \/ pc = "feed" /\ lines # <<>>
       \/ pc = "prefeed" /\ prefeed_lines # <<>> /\ ~paused
       \/ pc = "lines" /\ buf # <<>> /\ ~paused
    /\ LET idx == first_unfinished_idx(tests)
           line == CASE pc = "feed" -> Head(lines)
                     [] pc = "prefeed" -> Head(prefeed_lines)
                     [] OTHER -> Head(buf)
           payload == sanitize_payload(parse_dlt(line))
       IN  /\ idx # 0
           /\ payload_tap' = Append(payload_tap, payload)
           /\ hist' = [hist EXCEPT ![idx] = DequeAppend(@, payload, HISTORY_MAX_PER_STEP)]
           /\ \/ /\ int_ms_raises(tests[idx])
                 /\ lines' = IF pc = "feed" THEN Tail(lines) ELSE lines
                 /\ prefeed_lines' =
                      IF pc = "prefeed" THEN Tail(prefeed_lines) ELSE prefeed_lines
                 /\ buf' = IF pc = "lines" THEN Tail(buf) ELSE buf
                 /\ UNCHANGED <<ring, flagVars>>
              \/ /\ stop_race(tests[idx])
                 /\ lines' = IF pc = "feed" THEN Tail(lines) ELSE lines
                 /\ running' = FALSE /\ paused' = FALSE /\ sock' = "none"
                 /\ buf' = <<>> /\ ring' = <<>> /\ prefeed_lines' = <<>>
    /\ IF pc = "feed"
       THEN pc' = "raised" /\ status' = status
       ELSE pc' = "finalize" /\ status' = "Runner error"
    /\ UNCHANGED <<tests, counts, payload_history, updates, action_ptr, disconnects,
                   settle_until, connected, now, inflight, peer_closed, sent,
                   attempt, delay, steps_init>>

\* _run_pending_actions: the action of the step at self._action_ptr raises;
\* the main loop catches the exception
run_pending_actions_raises ==
    /\ UNCHANGED <<fnVars, frameVars>>
    /\ pc = "actions"
    /\ running /\ action_ptr <= Len(tests)
    /\ ~tests[action_ptr].done
    /\ \/ /\ int_ms_raises(tests[action_ptr])
          /\ UNCHANGED <<bufVars, flagVars>>
       \/ /\ stop_race(tests[action_ptr])
          /\ running' = FALSE /\ paused' = FALSE /\ sock' = "none"
          /\ buf' = <<>> /\ ring' = <<>> /\ prefeed_lines' = <<>>
    /\ pc' = "finalize" /\ status' = "Runner error"
    /\ UNCHANGED <<machineVars, lines, disconnects, settle_until, connected, envVars,
                   attempt, delay, steps_init>>

\* the finally block of start()
Finalize ==
    /\ UNCHANGED <<fnVars, frameVars>>
    /\ pc = "finalize"
    /\ SetMachine(finalize_unfinished(Machine, IF ~running THEN "stopped" ELSE "ended"))
    /\ sock' = "none" /\ running' = FALSE /\ paused' = FALSE
    /\ status' = "Stopped."
    /\ pc' = "returned"
    /\ UNCHANGED <<payload_history, action_ptr, bufVars, lines, disconnects,
                   settle_until, connected, envVars, attempt, delay, steps_init>>

Next ==
    \/ Send \/ PeerClose \/ Elapse
    \/ pause \/ resume \/ stop
    \/ connect_retry
    \/ StartConnected \/ StartFailed
    \/ SettleDrain \/ SettleEnd
    \/ FeedLine \/ FeedEnd
    \/ LoopTest
    \/ PrefeedLine \/ PrefeedEnd
    \/ RecvData \/ RecvNone \/ RecvError
    \/ Reconnected \/ ReconnectFailed
    \/ LineStep \/ LinesEnd
    \/ CheckTimeouts
    \/ run_pending_actions
    \/ CatchUp
    \/ AllDone
    \/ DispatchRaises \/ run_pending_actions_raises
    \/ Finalize

Spec == Init /\ [][Next]_vars

\* The steps of the engine thread.  The thread that runs start() is
\* scheduled as long as it has a step to take: a read that blocks is a
\* state in which RecvData is not enabled.
EngineStep ==
    \/ connect_retry
    \/ StartConnected \/ StartFailed
    \/ SettleDrain \/ SettleEnd
    \/ FeedLine \/ FeedEnd
    \/ LoopTest
    \/ PrefeedLine \/ PrefeedEnd
    \/ RecvData \/ RecvNone \/ RecvError
    \/ Reconnected \/ ReconnectFailed
    \/ LineStep \/ LinesEnd
    \/ CheckTimeouts
    \/ run_pending_actions
    \/ CatchUp
    \/ AllDone
    \/ DispatchRaises \/ run_pending_actions_raises
    \/ Finalize

\* the rule files of the runs checked for termination: actions that wait,
\* a step with a timeout, plain find steps
LivePlans ==
    { <<WaitCapture, FindA>>, <<FindA, Tap, Wait>>, <<NotFindAShort, FindA>> }

FairInit == Init /\ tests \in LivePlans

FairSpec == FairInit /\ [][Next]_vars /\ WF_vars(EngineStep)

(* ---------------- the functions of TRE_json, called alone ---------------- *)
\* the largest number of pieces of a payload handed to sanitize_payload
MaxPieces == 5
\* the longest line handed to line_matches
MaxLineLen == 2
\* the largest number of steps of a rule file handed to validate_tests_json
MaxSteps == 2

\* what the payloads are built of: capitals, a token that repeats, "=",
\* the blank, ">>" and one of the junk tokens
Pieces ==
    { <<"A", "A">>, <<"A", "B", "C">>, <<"=">>, <<" ">>, <<">", ">">>,
      <<"A", "O", "T", "A">> }

RECURSIVE Payloads(_)
Payloads(n) ==
    IF n = 0 THEN { <<>> }
    ELSE Payloads(n - 1) \cup { x \o y : x \in Payloads(n - 1), y \in Pieces }

\* the rules handed to line_matches; "(" is a pattern re.compile rejects
MatchPatterns == { <<>>, <<"a">>, <<"b">>, <<"a", "b">>, <<"(">> }
MatchCfgs == [pattern : MatchPatterns, literal : BOOLEAN, equals : BOOLEAN]
MatchLines == UNION { [1..n -> {"a", "b", " "}] : n \in 0..MaxLineLen }

\* A step object of a rule file, by the keys it has and the shape of their
\* values: find and not_find are absent, an object with "pattern" or an
\* object without it; sequence is absent, a list of strings, a list of
\* objects with "pattern" or a list with an object that has none; action
\* is absent or present.
StepObjects ==
    [find : {"absent", "pattern", "no_pattern"},
     not_find : {"absent", "pattern", "no_pattern"},
     sequence : {"absent", "strings", "patterns", "no_pattern"},
     action : {"absent", "present"}]
RuleFiles == UNION { [1..n -> StepObjects] : n \in 0..MaxSteps }

\* the keys validate_tests_json looks for in a step
modes_of(t) == { k \in {"find", "not_find", "sequence"} : t[k] # "absent" }

\* the body of the loop of validate_tests_json: the step is accepted
step_valid(t) ==
    /\ Cardinality(modes_of(t)) = 1
    /\ t.find \in {"absent", "pattern"}
    /\ t.not_find \in {"absent", "pattern"}
    /\ t.sequence \in {"absent", "strings", "patterns"}

\* TRE_json.validate_tests_json on the list the file holds: ok, and the
\* number of the step the message names (0 in the message of success)
validate_tests_json(data) ==
    LET bad == { i \in 1..Len(data) : ~step_valid(data[i]) } IN
    IF bad = {} THEN [ok |-> TRUE, step |-> 0]
    ELSE [ok |-> FALSE, step |-> CHOOSE i \in bad : \A j \in bad : i <= j]

\* the largest number of lines of a log handed to run_checks
MaxLogLines == 2

\* the logs run_checks reads, a list of lines
LogFiles == UNION { [1..n -> StreamLines] : n \in 0..MaxLogLines }

\* A step of the rule file run_checks reads.  key is the check the step
\* carries ("none" when it has none of find / not_find / sequence); shape
\* is what the value of that key is: an object, a string or a list.
CheckStep(key, shape, pattern, min_count, sequence) ==
    [key |-> key, shape |-> shape, pattern |-> pattern,
     min_count |-> min_count, sequence |-> sequence]

CheckSteps ==
    { CheckStep("find", "object", PatA, 1, <<>>),
      CheckStep("find", "object", PatA, 2, <<>>),
      CheckStep("find", "string", PatA, 1, <<>>),
      CheckStep("not_find", "object", PatB, 1, <<>>),
      CheckStep("sequence", "list", <<>>, 1, <<PatA, PatB>>),
      CheckStep("sequence", "string", <<>>, 1, <<>>),
      CheckStep("none", "object", <<>>, 1, <<>>) }
CheckFiles == UNION { [1..n -> CheckSteps] : n \in 0..MaxSteps }

\* TRE_json.check_find: the lines are counted until min_count of them match
RECURSIVE find_count(_, _, _, _)
find_count(log, cfg, i, count) ==
    IF i > Len(log) THEN count
    ELSE IF line_matches(log[i], cfg)
         THEN IF count + 1 >= cfg.min_count THEN count + 1
              ELSE find_count(log, cfg, i + 1, count + 1)
         ELSE find_count(log, cfg, i + 1, count)

check_find(log, cfg) ==
    [pass |-> find_count(log, cfg, 1, 0) >= cfg.min_count, error |-> FALSE]

\* TRE_json.check_not_find
check_not_find(log, cfg) ==
    [pass |-> ~ \E i \in 1..Len(log) : line_matches(log[i], cfg),
     error |-> FALSE]

\* the loop of TRE_json.check_sequence from line i with pos elements matched
RECURSIVE sequence_from(_, _, _, _)
sequence_from(log, seq, i, pos) ==
    IF i > Len(log) \/ pos >= Len(seq) THEN FALSE
    ELSE IF line_matches(log[i], [pattern |-> seq[pos + 1]])
         THEN IF pos + 1 = Len(seq) THEN TRUE
              ELSE sequence_from(log, seq, i + 1, pos + 1)
         ELSE sequence_from(log, seq, i + 1, pos)

check_sequence(log, step) ==
    [pass |-> sequence_from(log, step.sequence, 1, 0), error |-> FALSE]

\* what the except branch of run_checks leaves: ok false and a detail
\* with the key "error"
check_raised == [pass |-> FALSE, error |-> TRUE]

\* The body of the loop of run_checks for the step t: the entry appended to
\* results.  check_find and check_not_find call cfg.get, which raises on a
\* value that is no object; check_sequence raises on a value that is no
\* list.  error says that detail has the key "error".
check_step(log, t) ==
    IF t.key = "find"
    THEN IF t.shape = "object"
         THEN [mode |-> "test"] @@ check_find(log, t)
         ELSE [mode |-> "test"] @@ check_raised
    ELSE IF t.key = "not_find"
    THEN IF t.shape = "object"
         THEN [mode |-> "test"] @@ check_not_find(log, t)
         ELSE [mode |-> "test"] @@ check_raised
    ELSE IF t.key = "sequence"
    THEN IF t.shape = "list"
         THEN [mode |-> "test"] @@ check_sequence(log, t)
         ELSE [mode |-> "test"] @@ check_raised
    ELSE [mode |-> "info", pass |-> FALSE, error |-> TRUE]

\* TRE_json.run_checks on the lines of the log and the list of the rule
\* file: any_fail is set by a step that did not pass, has mode "test" and
\* whose detail has no "error".
run_checks(log, ts) ==
    LET results == [i \in 1..Len(ts) |-> check_step(log, ts[i])]
        any_fail == \E i \in 1..Len(ts) :
                       /\ ~results[i].pass
                       /\ results[i].mode = "test"
                       /\ ~results[i].error
    IN  [summary_pass |-> ~any_fail, results |-> results]

\* One function is called on one argument; sanitize_payload is then called
\* on its own result.
FnInit ==
    /\ EngineInit /\ tests = <<FindA, FindBShort>>
    /\ NoBytes
    /\ res = <<>>
    /\ \/ fn = "sanitize_payload" /\ arg \in Payloads(MaxPieces)
       \/ fn = "line_matches" /\ arg \in [line : MatchLines, cfg : MatchCfgs]
       \/ fn = "validate_tests_json" /\ arg \in RuleFiles
       \/ fn = "run_checks" /\ arg \in [log : LogFiles, tests : CheckFiles]

SanitizeCall ==
    /\ fn = "sanitize_payload"
    /\ Len(res) < 2
    /\ res' = Append(res, sanitize_payload(IF Len(res) = 0 THEN arg ELSE res[Len(res)]))
    /\ UNCHANGED <<engineVars, fn, arg, frameVars>>

LineMatchesCall ==
    /\ fn = "line_matches"
    /\ Len(res) = 0
    /\ res' = <<line_matches(arg.line, arg.cfg)>>
    /\ UNCHANGED <<engineVars, fn, arg, frameVars>>

ValidateCall ==
    /\ fn = "validate_tests_json"
    /\ Len(res) = 0
    /\ res' = <<validate_tests_json(arg)>>
    /\ UNCHANGED <<engineVars, fn, arg, frameVars>>

RunChecksCall ==
    /\ fn = "run_checks"
    /\ Len(res) = 0
    /\ res' = <<run_checks(arg.log, arg.tests)>>
    /\ UNCHANGED <<engineVars, fn, arg, frameVars>>

FnNext == SanitizeCall \/ LineMatchesCall \/ ValidateCall \/ RunChecksCall

FnSpec == FnInit /\ [][FnNext]_vars

(* ---------------- the stream, byte by byte ---------------- *)
\* the number of bytes of a run, the ends of connections counted
MaxBytes == 4
\* the bytes of the stream
Bytes == {"a", "\r", "\n"}
\* the place in "received" where a connection ended
EOF == "EOF"

ByteStrings(k) == UNION { [1..n -> Bytes] : n \in 0..k }

\* line.rstrip("\r")
RECURSIVE rstrip_cr(_)
rstrip_cr(s) ==
    IF s # <<>> /\ s[Len(s)] = "\r" THEN rstrip_cr(SubSeq(s, 1, Len(s) - 1)) ELSE s

\* b.find(sep) + 1, and 0 when sep is not in b
find_char(b, sep) ==
    IF \E i \in 1..Len(b) : b[i] = sep
    THEN CHOOSE i \in 1..Len(b) : b[i] = sep /\ \A j \in 1..(i - 1) : b[j] # sep
    ELSE 0

\* The loop "p = b.find('\n'); if p < 0: break; line = b[:p]; b = b[p+1:]":
\* the lines it cuts, each with rstrip("\r"), and what is left of b.
RECURSIVE split_lines(_)
split_lines(b) ==
    LET p == find_char(b, "\n") IN
    IF p = 0 THEN [out |-> <<>>, rest |-> b]
    ELSE LET r == split_lines(SubSeq(b, p + 1, Len(b))) IN
         [out |-> <<rstrip_cr(SubSeq(b, 1, p - 1))>> \o r.out, rest |-> r.rest]

\* a read takes the first k bytes the socket holds
Take(k) ==
    /\ wire' = SubSeq(wire, k + 1, Len(wire))
    /\ received' = received \o SubSeq(wire, 1, k)

FrameInit ==
    /\ EngineInit /\ tests = <<FindA, FindBShort>>
    /\ NoCall
    /\ wire \in ByteStrings(MaxBytes)
    /\ received = <<>> /\ fbuf = <<>> /\ framed = <<>>
    /\ fphase = "settle"

\* SessionManager._drain_to_ring, called while the engine settles
drain_to_ring ==
    /\ fphase = "settle"
    /\ \E k \in 1..Len(wire) :
         /\ Take(k)
         /\ LET sp == split_lines(fbuf \o SubSeq(wire, 1, k)) IN
              /\ framed' = framed \o sp.out
              /\ fbuf' = sp.rest
    /\ UNCHANGED <<engineVars, fnVars, fphase>>

\* the settle window is over: the lines of the ring are fed
settle_over ==
    /\ fphase = "settle"
    /\ fphase' = "feed"
    /\ UNCHANGED <<engineVars, fnVars, wire, received, fbuf, framed>>

\* the feed is over: the main loop begins, with a read
feed_over ==
    /\ fphase = "feed"
    /\ fphase' = "recv"
    /\ UNCHANGED <<engineVars, fnVars, wire, received, fbuf, framed>>

\* start(), main loop: text = self._recv_block(); self._buf += text
recv_block ==
    /\ fphase = "recv"
    /\ \E k \in 1..Len(wire) :
         /\ Take(k)
         /\ fbuf' = fbuf \o SubSeq(wire, 1, k)
    /\ fphase' = "tick"
    /\ UNCHANGED <<engineVars, fnVars, framed>>

\* start(), main loop: one turn of the loop that cuts the lines of
\* self._buf and dispatches them.  An action a dispatch triggers reads the
\* socket before the next turn.
cut_line ==
    /\ fphase = "tick"
    /\ find_char(fbuf, "\n") > 0
    /\ LET p == find_char(fbuf, "\n") IN
         /\ framed' = Append(framed, rstrip_cr(SubSeq(fbuf, 1, p - 1)))
         /\ fbuf' = SubSeq(fbuf, p + 1, Len(fbuf))
    /\ UNCHANGED <<engineVars, fnVars, wire, received, fphase>>

\* the tick is over: the lines are cut and the pending actions are done
tick_over ==
    /\ fphase = "tick"
    /\ find_char(fbuf, "\n") = 0
    /\ fphase' = "recv"
    /\ UNCHANGED <<engineVars, fnVars, wire, received, fbuf, framed>>

\* An action step is performed: by the dispatch of a line of the ring, by
\* the dispatch of a line of a tick or by _run_pending_actions.
action_runs ==
    \/ fphase = "feed" /\ framed # <<>>
    \/ fphase = "tick"

\* SessionManager._drain_collect_once (wait_capture): the lines are cut
\* from the local string, what is left of it is appended to self._buf.
drain_collect_once ==
    /\ action_runs
    /\ \E k \in 1..Len(wire) :
         /\ Take(k)
         /\ LET sp == split_lines(SubSeq(wire, 1, k)) IN
              /\ framed' = framed \o sp.out
              /\ fbuf' = fbuf \o sp.rest
    /\ UNCHANGED <<engineVars, fnVars, fphase>>

\* SessionManager._drain_discard_once (wait): the bytes read are dropped
drain_discard_once ==
    /\ action_runs
    /\ \E k \in 1..Len(wire) : Take(k)
    /\ UNCHANGED <<engineVars, fnVars, fbuf, framed, fphase>>

\* SessionManager._reconnect after a read that returned no data: a new
\* socket, self._buf is left as it is.
reconnect ==
    /\ fphase = "recv"
    /\ wire = <<>>
    /\ Cardinality({ i \in 1..Len(received) : received[i] = EOF }) < RECONNECT_MAX
    /\ Len(received) + 1 < MaxBytes
    /\ received' = Append(received, EOF)
    /\ wire' \in ByteStrings(MaxBytes - Len(received) - 1) \ { <<>> }
    /\ UNCHANGED <<engineVars, fnVars, fbuf, framed, fphase>>

FrameNext ==
    \/ drain_to_ring \/ settle_over \/ feed_over
    \/ recv_block \/ cut_line \/ tick_over
    \/ drain_collect_once \/ drain_discard_once
    \/ reconnect

FrameSpec == FrameInit /\ [][FrameNext]_vars

(* ======================================================================= *)
(* Properties                                                              *)
(* ======================================================================= *)
\* number of entries of a history in which the pattern occurs
Occurrences(h, pat) == Cardinality({ k \in 1..Len(h) : Contains(h[k], pat) })

\* the step was finalized by the finally block of start()
ByFinalize(i) == tests[i].final_line.src \in {"stopped", "ended"}

\* C1: a step's done flag never goes back to false, on_step_update is called
\* at most once per step index, and the result and evidence of a step that is
\* done are never changed by a later event.
C1_FinalizeOnce ==
    [][\A i \in 1..Len(tests) :
          /\ updates'[i] <= 1
          /\ tests[i].done =>
               /\ tests'[i].done
               /\ updates'[i] = updates[i]
               /\ tests'[i].final_result = tests[i].final_result
               /\ tests'[i].final_line = tests[i].final_line]_vars

\* start() has returned; one step was resolved by a dispatched line and
\* another one by the finalize pass that ran after it
C1_Witness ==
    /\ pc = "returned"
    /\ \E i, j \in 1..Len(tests) :
          /\ tests[i].final_line.src = "line" /\ updates[i] = 1
          /\ ByFinalize(j) /\ updates[j] = 1

\* C2: before the run terminates, a step is finalized or advanced only when
\* every earlier step is done.
C2_StrictFifo ==
    [][pc # "finalize" =>
         \A i \in 1..Len(tests) :
            (tests'[i].done # tests[i].done
               \/ tests'[i].seq_idx # tests[i].seq_idx
               \/ counts'[i] # counts[i])
            => \A j \in 1..(i - 1) : tests'[j].done]_vars

\* C3: when start() has returned after a successful connect, every step is
\* done and the observer was called exactly once for it.
C3_AllResolvedOnReturn ==
    (pc = "returned" /\ connected) =>
        \A i \in 1..Len(tests) : tests[i].done /\ updates[i] = 1

\* start() has returned after a connect and the finalize pass resolved a step
C3_Witness ==
    /\ pc = "returned" /\ connected
    /\ \E i \in 1..Len(tests) : ByFinalize(i)
    /\ \E i \in 1..Len(tests) : tests[i].final_line.src = "timeout"

\* C4: the finally block of start() finalizes every step that is not done:
\* PASS for a not_find step, FAIL for every other step.
C4_FinalizeOutcome ==
    [][(pc = "finalize" /\ pc' = "returned") =>
         \A i \in 1..Len(tests) :
            ~tests[i].done =>
               /\ tests'[i].done
               /\ tests'[i].final_result =
                    IF tests[i].kind = "not_find" THEN "PASS" ELSE "FAIL"]_vars

\* the finalize pass has resolved a not_find step to PASS and another step
\* to FAIL
C4_Witness ==
    /\ pc = "returned"
    /\ \E i, j \in 1..Len(tests) :
          /\ tests[i].kind = "not_find" /\ ByFinalize(i) /\ tests[i].final_result = "PASS"
          /\ tests[j].kind # "not_find" /\ ByFinalize(j) /\ tests[j].final_result = "FAIL"

\* C5: a find step with min_count k that reports PASS has seen at least k
\* lines in which its pattern occurs (dispatched while it was current, or
\* held by the payload history).
C5_FindNeedsMatches ==
    \A i \in 1..Len(tests) :
       (tests[i].kind = "find" /\ tests[i].final_result = "PASS") =>
          Occurrences(hist[i], tests[i].pattern)
            + Occurrences(payload_history, tests[i].pattern) >= tests[i].min_count

\* C6: a not_find step reports FAIL only when a line in which its pattern
\* occurs was dispatched to it, and PASS only by timeout or at the end of the
\* run without such a line.
C6_NotFindOutcome ==
    \A i \in 1..Len(tests) :
       tests[i].kind = "not_find" =>
          /\ tests[i].final_result = "FAIL" =>
                Occurrences(hist[i], tests[i].pattern)
                  + Occurrences(payload_history, tests[i].pattern) > 0
          /\ tests[i].final_result = "PASS" =>
                /\ tests[i].final_line.src \in {"timeout", "stopped", "ended"}
                /\ Occurrences(hist[i], tests[i].pattern) = 0

\* the cursor a sequence reaches on a history when each line is tested
\* against the current unmatched element only
RECURSIVE OrderedMatches(_, _, _)
OrderedMatches(h, seq, cur) ==
    IF h = <<>> \/ cur >= Len(seq) THEN cur
    ELSE OrderedMatches(Tail(h), seq,
                        IF Contains(Head(h), seq[cur + 1]) THEN cur + 1 ELSE cur)

\* C7: the cursor of a sequence step is never ahead of the elements matched
\* in order by the lines dispatched to it, and the step passes only with all
\* of them matched.
C7_SequenceInOrder ==
    \A i \in 1..Len(tests) :
       tests[i].kind = "sequence" =>
          /\ tests[i].seq_idx <= OrderedMatches(hist[i], tests[i].sequence, 0)
          /\ tests[i].final_result = "PASS" =>
                OrderedMatches(hist[i], tests[i].sequence, 0) = Len(tests[i].sequence)

\* C8: the catch-up of a tick passes the current find step when a line in
\* which its pattern occurs was dispatched while an earlier step was current.
C8_CatchUpPasses ==
    [][(pc = "catchup" /\ pc' = "alldone") =>
         LET cur == first_unfinished_idx(tests) IN
         (/\ cur > 1
          /\ tests[cur].kind = "find"
          /\ \E j \in 1..(cur - 1) : Occurrences(hist[j], tests[cur].pattern) > 0)
         => (tests'[cur].done /\ tests'[cur].final_result = "PASS")]_vars

\* C9: while the session is paused no step is finalized by timeout.
C9_NoTimeoutWhilePaused ==
    [][paused =>
         \A i \in 1..Len(tests) :
            ~(/\ ~tests[i].done /\ tests'[i].done
              /\ tests'[i].final_line.src = "timeout")]_vars

\* C10: when a line of the live stream is dispatched, no line received
\* during a pause is still waiting in the ring.
C10_PausedLinesFirst ==
    [][(pc = "lines" /\ Len(payload_tap') > Len(payload_tap)) => ring = <<>>]_vars

\* C11: while the session is paused no received line is dispatched to the
\* step state machine, so no line advances or finalizes a step.
C11_NoDispatchWhilePaused ==
    [][paused => payload_tap' = payload_tap]_vars

\* C12: a reconnect cycle, from the disconnect to the new connection,
\* leaves the results, the counters, the cursors and the number of
\* notifications of every step as they were, so that the first unfinished
\* step is the same on the new connection.
C12_ReconnectPreservesProgress ==
    [][(pc = "reconnect" \/ pc' = "reconnect") =>
         /\ tests' = tests /\ counts' = counts /\ hist' = hist
         /\ updates' = updates /\ action_ptr' = action_ptr
         /\ first_unfinished_idx(tests') = first_unfinished_idx(tests)
         /\ (pc' = "loop" => sock' = "open")]_vars

\* a run that reconnected with one step done and another still open
C12_Witness ==
    /\ pc = "loop" /\ status = "Reconnected." /\ running /\ sock = "open"
    /\ \E i \in 1..Len(tests) : tests[i].done /\ tests[i].final_line.src = "line"
    /\ \E j \in 1..Len(tests) : ~tests[j].done

\* C13: at most RECONNECT_MAX reconnect cycles are started in a run and
\* the counter never goes back; when a reconnect fails or the budget is
\* used up the loop is left for the finally block, which finalizes the
\* steps that are pending.
C13_ReconnectBounded ==
    [][/\ disconnects' <= RECONNECT_MAX
       /\ disconnects' >= disconnects
       /\ (pc = "recv" /\ pc' = "reconnect") =>
             (disconnects < RECONNECT_MAX /\ disconnects' = disconnects + 1)
       /\ (pc = "reconnect" /\ pc' \notin {"reconnect", "loop"}) => pc' = "finalize"
       /\ (pc = "recv" /\ disconnects = RECONNECT_MAX /\ pc' \notin {"recv", "lines"})
             => pc' = "finalize"
       /\ (pc = "finalize" /\ pc' # "finalize") =>
             (pc' = "returned" /\ all_done(tests'))]_vars

\* the stream closed once more after the third reconnect: the loop is left
\* with steps pending
C13_Witness ==
    /\ pc = "finalize" /\ running
    /\ disconnects = RECONNECT_MAX /\ status = "Reconnected."
    /\ ~all_done(tests)

\* C14: when start() is over in a connected run that was stopped (stop()
\* was called, or every step was done), it has returned with every step
\* finalized and "Stopped." as the last status reported.
C14_StopReturns ==
    (connected /\ ~running /\ pc \in {"returned", "raised"})
       => (pc = "returned" /\ status = "Stopped." /\ all_done(tests))

\* C15: a step is finalized by timeout only when its effective timeout is
\* positive and has elapsed since the step's start time: never with
\* timeout 0, never without a timeout at an index other than 1; step 1
\* without a timeout has the default of 120 s.
C15_TimeoutEnablement ==
    \A i \in 1..Len(tests) :
       (tests[i].done /\ tests[i].final_line.src = "timeout") =>
          /\ tests[i].timeout # 0
          /\ tests[i].timeout < 0 => (i = 1 /\ now - tests[i].t0 >= 120)
          /\ tests[i].timeout > 0 => now - tests[i].t0 >= tests[i].timeout

\* step 1 gives no timeout and was finalized by the default of 120 s,
\* while a later step without a timeout is still open
C15_Witness ==
    /\ running
    /\ tests[1].timeout < 0 /\ tests[1].done /\ tests[1].final_line.src = "timeout"
    /\ \E j \in 2..Len(tests) : tests[j].timeout < 0 /\ ~tests[j].done

\* C16: a pass of _check_timeouts of a running session finalizes every
\* step that is not done and whose positive timeout has elapsed, once, as
\* PASS when the step is not_find and as FAIL when it is find, sequence or
\* action, and the first unfinished step is then another one.
C16_TimeoutOutcome ==
    [][(pc = "timeouts" /\ pc' = "actions" /\ running) =>
         \A i \in 1..Len(tests) :
            LET tmo == IF tests[i].timeout >= 0 THEN tests[i].timeout
                       ELSE IF i = 1 THEN 120 ELSE 0
            IN  (~tests[i].done /\ tmo > 0 /\ now - tests[i].t0 >= tmo) =>
                  /\ tests'[i].done
                  /\ updates'[i] = updates[i] + 1
                  /\ tests'[i].final_line.src = "timeout"
                  /\ tests[i].kind = "not_find" => tests'[i].final_result = "PASS"
                  /\ tests[i].kind \in {"find", "sequence", "action"} =>
                        tests'[i].final_result = "FAIL"
                  /\ first_unfinished_idx(tests') # i]_vars

\* a not_find step was passed by its timeout in the pass just made
C16_Witness ==
    /\ pc = "actions" /\ running
    /\ \E i \in 1..Len(tests) :
          /\ tests[i].kind = "not_find" /\ tests[i].timeout > 0
          /\ tests[i].done /\ tests[i].final_result = "PASS"
          /\ tests[i].final_line.src = "timeout"
          /\ updates[i] = 1

\* C17: a not_find step with a positive timeout that is current from the
\* start, on a stream whose dispatched lines do not contain its pattern, is
\* never failed, and is passed by the first pass of _check_timeouts made
\* after its timeout has elapsed.
C17_NotFindBoundedResponse ==
    (/\ tests[1].kind = "not_find" /\ tests[1].timeout > 0
     /\ \A k \in 1..Len(payload_tap) : ~Contains(payload_tap[k], tests[1].pattern))
    =>
    (/\ tests[1].final_result # "FAIL"
     /\ (pc = "actions" /\ running /\ now - tests[1].t0 >= tests[1].timeout) =>
           (tests[1].done /\ tests[1].final_result = "PASS"))

\* C18: while the engine settles, the lines received are appended to the
\* ring in the order of their arrival, nothing is dispatched and no
\* on_step_update is made; the feed then takes exactly the lines of the
\* ring, dispatches them one by one in that order, and the live loop is
\* entered only when none of them is left (or the run was stopped); the
\* feed is left otherwise only by an exception that ends start().
C18_SettleThenFeed ==
    [][/\ pc' = "settle" =>
            (payload_tap' = <<>> /\ \A i \in 1..Len(tests) : updates'[i] = 0)
       /\ (pc = "settle" /\ pc' = "settle" /\ ring' # ring /\ running') =>
            ring' = ring \o inflight
       /\ (pc = "settle" /\ pc' = "feed") => lines' = ring
       /\ (pc = "feed" /\ payload_tap' # payload_tap) =>
            /\ lines # <<>>
            /\ payload_tap' = Append(payload_tap, strip(collapse_ws(Head(lines))))
            /\ lines' = Tail(lines)
       /\ (pc = "feed" /\ pc' = "loop") => (lines = <<>> \/ ~running)
       /\ (pc = "feed" /\ pc' \notin {"feed", "loop"}) => pc' = "raised"]_vars

\* two different lines were settled and fed, in the order of their arrival
C18_Witness ==
    /\ pc = "loop" /\ status = "Live matching started." /\ running
    /\ Len(payload_tap) >= 2
    /\ payload_tap[1] # payload_tap[2]

\* C19: _connect_with_retries makes at most 5 attempts; after the k-th
\* failed attempt it sleeps 0.5 * 2^(k-1) seconds; a connection is returned
\* by the attempt that succeeds, which ends the function; no connection is
\* returned only when 5 attempts have failed.
C19_ConnectRetry ==
    [][/\ attempt' <= 5
       /\ (attempt' # attempt /\ attempt' # 0) =>
            /\ attempt' = attempt + 1
            /\ delay' = CASE attempt' = 1 -> 500 [] attempt' = 2 -> 1000
                           [] attempt' = 3 -> 2000 [] attempt' = 4 -> 4000
                           [] OTHER -> 8000
       /\ (pc \in {"start", "reconnect"} /\ sock' = "open") =>
            (attempt < 5 /\ attempt' = 0 /\ pc' \notin {"start", "reconnect"})
       /\ ((pc = "start" /\ pc' = "returned") \/ (pc = "reconnect" /\ pc' = "finalize"))
            => attempt = 5]_vars

\* the fifth attempt of the initial connect has failed
C19_Witness ==
    pc = "start" /\ attempt = 5 /\ delay = 8000

\* C20: when the initial connect has used up its retries, start() has
\* reported "Failed to connect." and returned: the session is not running,
\* on_steps_init was not called, no on_step_update was made and no step is
\* done.
C20_FailedConnectStartsNothing ==
    (pc = "returned" /\ ~connected) =>
       /\ status = "Failed to connect."
       /\ ~running /\ sock = "none"
       /\ steps_init = <<>>
       /\ \A i \in 1..Len(tests) :
             updates[i] = 0 /\ ~tests[i].done /\ tests[i].final_result = ""

\* start() has returned without a connection
C20_Witness ==
    pc = "returned" /\ ~connected /\ status = "Failed to connect." /\ ~running

\* C21: a step that has none of find / not_find / sequence / action is
\* resolved to ERROR, never to PASS or FAIL, whichever path finalizes it.
C21_UnknownIsError ==
    \A i \in 1..Len(tests) :
       (tests[i].kind = "unknown" /\ tests[i].done) => tests[i].final_result = "ERROR"

\* C22: the dispatch of a line never ends the run: after it the engine is
\* neither out of start() by an exception nor on its way to the finally
\* block.
C22_FaultIsolation ==
    [][Len(payload_tap') > Len(payload_tap) => pc' \notin {"raised", "finalize"}]_vars

\* C23: an action step that is executed is finalized PASS exactly when the
\* executor reports success and FAIL when it reports failure, an unknown
\* action type included, with the executor's message as evidence; an
\* action that fails does not stop the run: the engine goes on in the loop
\* it is in.
C23_ActionOutcome ==
    [][/\ LET cur == first_unfinished_idx(tests) IN
          (/\ pc \in {"feed", "prefeed", "lines", "actions"}
           /\ cur # 0 /\ tests[cur].kind = "action")
          => pc' \notin {"finalize", "raised", "returned"}
       /\ \A i \in 1..Len(tests) :
         (~tests[i].done /\ tests'[i].done /\ tests'[i].final_line.src = "action") =>
            /\ tests[i].kind = "action"
            /\ tests'[i].final_result = "PASS" <=>
                  tests'[i].final_line.text \in {<<"wait">>, <<"wait_capture">>, <<"tap ok">>}
            /\ tests'[i].final_result = "FAIL" <=>
                  tests'[i].final_line.text \in {<<"tap fail">>, <<"unknown action">>}
            /\ tests[i].atype \notin {"wait", "wait_capture", "tap"} =>
                  tests'[i].final_line.text = <<"unknown action">>
            /\ running' = running]_vars

\* C24: an action that is the first unfinished step of a running session
\* is performed without a further line: the engine never waits in a read
\* for data while such a step is pending.
C24_ActionNeedsNoLine ==
    LET cur == first_unfinished_idx(tests) IN
    ~(/\ pc = "recv" /\ running /\ sock = "open"
      /\ inflight = <<>> /\ ~peer_closed
      /\ cur # 0 /\ tests[cur].kind = "action")

\* C25: once every step is done the run ends by itself: the engine never
\* waits in a read for data with every step done.
C25_SelfTermination ==
    ~(/\ pc = "recv" /\ running /\ sock = "open"
      /\ inflight = <<>> /\ ~peer_closed
      /\ all_done(tests))

\* the lines of the bytes r: of every connection, the text before each
\* line feed, without the carriage returns at its end
RECURSIVE lines_of(_)
lines_of(r) ==
    LET p == find_char(r, EOF)
        L(b) == { split_lines(b).out[i] : i \in 1..Len(split_lines(b).out) }
    IN IF p = 0 THEN L(r)
       ELSE L(SubSeq(r, 1, p - 1)) \cup lines_of(SubSeq(r, p + 1, Len(r)))

\* C26: every line cut from the bytes, in the settle window, in the main
\* loop, during a wait or wait_capture and after a reconnect, is a whole
\* line of the bytes received: the text between two line feeds of one
\* connection, not a part of it and not two fragments joined.
C26_LineFraming ==
    \A i \in 1..Len(framed) : framed[i] \in lines_of(received)

\* C27: for a rule with literal = true, equals = false and a pattern that
\* is not empty (and here holds no blank and no wildcard), line_matches
\* returns true exactly when the pattern text occurs in the line.
C27_LiteralMatching ==
    (/\ fn = "line_matches" /\ Len(res) = 1
     /\ arg.cfg.literal /\ ~arg.cfg.equals /\ arg.cfg.pattern # <<>>)
        => (res[1] <=> Contains(arg.line, arg.cfg.pattern))

\* re.compile accepts the pattern: of the patterns of the model the one
\* with "(", a group that is never closed, is rejected
compiles(pat) == \A i \in 1..Len(pat) : pat[i] # "("

\* C28: for a rule that is not literal and whose pattern does not compile,
\* line_matches returns false whatever the line is.
C28_FailSoftCompile ==
    (/\ fn = "line_matches" /\ Len(res) = 1
     /\ ~arg.cfg.literal /\ arg.cfg.pattern # <<>> /\ ~compiles(arg.cfg.pattern))
        => res[1] = FALSE

\* C29: sanitize_payload applied to its own result returns that result.
C29_SanitizeIdempotent ==
    (fn = "sanitize_payload" /\ Len(res) = 2) => res[2] = res[1]

\* the keys of a step among find, not_find, sequence and action
keys_of(t) == { k \in {"find", "not_find", "sequence", "action"} : t[k] # "absent" }

\* a step in the documented format: one of the four keys, find and
\* not_find with a pattern, sequence made of strings or pattern bodies
documented(t) ==
    /\ Cardinality(keys_of(t)) = 1
    /\ t.find # "no_pattern" /\ t.not_find # "no_pattern" /\ t.sequence # "no_pattern"

\* C30: validate_tests_json accepts every list whose steps are all in the
\* documented format, and rejects a list with a step that has none or more
\* than one of find, not_find, sequence and action.
C30_ValidateAcceptsDocumented ==
    (fn = "validate_tests_json" /\ Len(res) = 1) =>
        /\ (\A i \in 1..Len(arg) : documented(arg[i])) => res[1].ok
        /\ (\E i \in 1..Len(arg) : Cardinality(keys_of(arg[i])) # 1) => ~res[1].ok

\* the last n elements of the sequence q
LastN(q, n) == IF Len(q) <= n THEN q ELSE SubSeq(q, Len(q) - n + 1, Len(q))

\* C31: the payload history holds the lines dispatched so far, in the
\* order of their dispatch: all of them up to 5000, the last 5000 beyond.
C31_PayloadHistoryContent ==
    payload_history = LastN(payload_tap, PAYLOAD_HISTORY_MAXLEN)

\* C32: when start() is over, by a return or by an exception, the socket
\* is closed and cleared and the flags running and paused are false.
C32_ResourcesReleased ==
    (pc \in {"returned", "raised"}) => (sock = "none" /\ ~running /\ ~paused)

\* C33: a step is finalized by timeout only when it is the first
\* unfinished step: every step before it is done when the pass of
\* _check_timeouts that finalizes it is over.
C33_TimeoutOfCurrentStep ==
    [][\A i \in 1..Len(tests) :
          (~tests[i].done /\ tests'[i].done /\ tests'[i].final_line.src = "timeout")
            => \A j \in 1..(i - 1) : tests'[j].done]_vars

\* C34: once stop() was called (running is false at the read it unblocks)
\* the engine starts no reconnect.
C34_NoReconnectAfterStop ==
    [][(pc = "recv" /\ ~running) => pc' # "reconnect"]_vars

\* the sequence a is the beginning of the sequence b
IsPrefix(a, b) == Len(a) <= Len(b) /\ SubSeq(b, 1, Len(a)) = a

\* C35: captured lines are dispatched in the order of their arrival: the
\* lines that wait in the prefeed list (without the one a step of the
\* prefeed loop takes for dispatch) stay at its head when a wait_capture
\* action adds the lines it captured.
C35_PrefeedKeepsOrder ==
    [][LET waiting == IF pc = "prefeed" /\ Len(payload_tap') > Len(payload_tap)
                      THEN Tail(prefeed_lines)
                      ELSE prefeed_lines
       IN prefeed_lines' = <<>> \/ IsPrefix(waiting, prefeed_lines')]_vars

\* C36: a line dispatched while the first unfinished step is an action is
\* evaluated, once the action has run, against the step that is then the
\* first unfinished one when that step is not an action: the line is
\* appended to the history of the lines that step has seen.
C36_ActionKeepsLine ==
    [][LET cur == first_unfinished_idx(tests)
           nxt == first_unfinished_idx(tests')
       IN (/\ Len(payload_tap') > Len(payload_tap)
           /\ cur # 0 /\ tests[cur].kind = "action"
           /\ nxt # 0 /\ tests'[nxt].kind # "action")
            => Len(hist'[nxt]) > Len(hist[nxt])]_vars

\* C37: the dispatch of a line changes the progress fields and the match
\* count of no step but the first unfinished one, and of no step at all
\* when every step is done; at most one step becomes done.
C37_DispatchTouchesOneStep ==
    [][Len(payload_tap') > Len(payload_tap) =>
         LET cur == first_unfinished_idx(tests) IN
         /\ \A i \in 1..Len(tests) :
               i # cur => (tests'[i] = tests[i] /\ counts'[i] = counts[i])
         /\ Cardinality({ i \in 1..Len(tests) : ~tests[i].done /\ tests'[i].done }) <= 1]_vars

\* a line passed step 1 and left step 2 as it was; another line was
\* dispatched
C37_Witness ==
    /\ Len(payload_tap) = 2
    /\ tests[1].done /\ tests[1].final_line.src = "line" /\ counts[1] = 1
    /\ ~tests[2].done /\ counts[2] = 0 /\ tests[2].kind = "find"

\* C38: on_steps_init is called once in a run that connects, and not at
\* all otherwise, with one entry per step that carries the indices 1..n in
\* the order of the list; no on_step_update comes before it, and every
\* on_step_update has left a result among PASS, FAIL and ERROR.
C38_ObserverOrdering ==
    /\ Len(steps_init) = (IF connected THEN 1 ELSE 0)
    /\ \A k \in 1..Len(steps_init) :
          /\ Len(steps_init[k]) = Len(tests)
          /\ \A i \in 1..Len(tests) : steps_init[k][i].idx = i
    /\ \A i \in 1..Len(tests) :
          updates[i] > 0 =>
             /\ Len(steps_init) = 1
             /\ tests[i].final_result \in {"PASS", "FAIL", "ERROR"}

\* a connected run has returned with a step that ended ERROR and a step
\* that ended FAIL
C38_Witness ==
    /\ pc = "returned" /\ connected
    /\ \E i \in 1..Len(tests) : updates[i] = 1 /\ tests[i].final_result = "ERROR"
    /\ \E i \in 1..Len(tests) : updates[i] = 1 /\ tests[i].final_result = "FAIL"

\* C39: the lines that arrive while a wait action runs are read and
\* dropped: when the action is over none of them is in the ring or in the
\* prefeed list, and none is left in the socket for the next read, which
\* would dispatch it.
C39_WaitDiscards ==
    [][\A i \in 1..Len(tests) :
          (/\ ~tests[i].done /\ tests'[i].done
           /\ tests'[i].final_line = Evidence("action", <<"wait">>)
           /\ sock = "open")
            => (/\ inflight' = <<>>
                /\ ring' = ring
                /\ IsPrefix(prefeed_lines', prefeed_lines))]_vars

\* C40: run_checks returns summary_pass = true only if every step of its
\* results has pass = true; a step that raised an error or that has no
\* valid check makes the summary false.
C40_SummaryPass ==
    (fn = "run_checks" /\ Len(res) = 1)
       => (res[1].summary_pass
              => \A i \in 1..Len(res[1].results) : res[1].results[i].pass)

====
